---- MODULE Spec2Model ----
(***************************************************************************)
(* Model of the record normalisation engine of the CSV cleaner             *)
(* (src/streamlit_app.py, class OptimizedCSVCleaner).                      *)
(*                                                                         *)
(* A cell value is a tuple of one-character strings, so that strip, lower, *)
(* substring search, digit filtering and date parsing are computed on the  *)
(* characters.  A missing cell (pandas NaN) is the value NaN and Python's  *)
(* None is the value None.  Column names are strings.  A table is a record *)
(* [cols, index, data]: the ordered column names, the row labels and, per  *)
(* row, the cells in column order.                                         *)
(*                                                                         *)
(* Assumptions on the inputs: the column names of a table stay distinct    *)
(* after renaming, the row labels are distinct (a RangeIndex), and every   *)
(* column holds strings or missing values (object dtype).                  *)
(***************************************************************************)
EXTENDS Integers, Sequences, FiniteSets, TLC

VARIABLES pc, run, df, cleaned, first, matches_found,
          current_year, freeform, gen, date_str, age, result

vars == <<pc, run, df, cleaned, first, matches_found,
          current_year, freeform, gen, date_str, age, result>>

(***************************************************************************)
(* Bounds of the model                                                     *)
(***************************************************************************)
MaxRows == 2
MaxRuns == 2
MaxPad == 1

(***************************************************************************)
(* Characters and strings                                                  *)
(***************************************************************************)
NaN == <<"NaN">>
None == <<"None">>
EmptyStr == << >>

DigitChars == <<"0","1","2","3","4","5","6","7","8","9">>
UpperChars == <<"A","B","C","D","E","F","G","H","I","J","K","L","M","N","O","P","Q","R","S","T","U","V","W","X","Y","Z">>
LowerChars == <<"a","b","c","d","e","f","g","h","i","j","k","l","m","n","o","p","q","r","s","t","u","v","w","x","y","z">>
Whitespace == {" ", "\t"}

IsDigit(c) == \E i \in 1..10 : DigitChars[i] = c
DigitVal(c) == (CHOOSE i \in 1..10 : DigitChars[i] = c) - 1

LowerChar(c) ==
  IF \E i \in 1..26 : UpperChars[i] = c
  THEN LowerChars[CHOOSE i \in 1..26 : UpperChars[i] = c]
  ELSE c

lower(s) == [i \in 1..Len(s) |-> LowerChar(s[i])]

RECURSIVE lstrip(_)
lstrip(s) == IF s # << >> /\ Head(s) \in Whitespace THEN lstrip(Tail(s)) ELSE s

RECURSIVE rstrip(_)
rstrip(s) ==
  IF s # << >> /\ s[Len(s)] \in Whitespace
  THEN rstrip(SubSeq(s, 1, Len(s) - 1))
  ELSE s

strip(s) == rstrip(lstrip(s))

\* Python's  sub in s
Contains(sub, s) ==
  \E i \in 0..(Len(s) - Len(sub)) : SubSeq(s, i + 1, i + Len(sub)) = sub

isna(v) == v = NaN
notna(v) == v # NaN

\* str.isdigit() on ASCII text
isdigit(s) == s # << >> /\ \A i \in 1..Len(s) : IsDigit(s[i])

RECURSIVE int(_)
int(s) == IF s = << >> THEN 0 ELSE 10 * int(SubSeq(s, 1, Len(s) - 1)) + DigitVal(s[Len(s)])

\* re.sub(r'\D', '', s)
RECURSIVE DigitsOnly(_)
DigitsOnly(s) ==
  IF s = << >> THEN << >>
  ELSE IF IsDigit(Head(s)) THEN <<Head(s)>> \o DigitsOnly(Tail(s))
       ELSE DigitsOnly(Tail(s))

clean_phone(phone) ==
  IF notna(phone) /\ phone # None /\ phone # EmptyStr THEN DigitsOnly(phone) ELSE EmptyStr

(***************************************************************************)
(* Dates: pandas.to_datetime with an explicit format, and strftime         *)
(***************************************************************************)
NaT == [year |-> 0, month |-> 0, day |-> 0]

\* pandas.Timestamp covers 1677-09-21 .. 2262-04-11; the model accepts the
\* whole years in between.
MinYear == 1678
MaxYear == 2261

IsLeap(y) == (y % 4 = 0 /\ y % 100 # 0) \/ y % 400 = 0

DaysIn(m, y) ==
  CASE m \in {4, 6, 9, 11} -> 30
    [] m = 2 -> IF IsLeap(y) THEN 29 ELSE 28
    [] OTHER -> 31

\* pd.Timestamp(year=, month=, day=), NaT when the constructor raises
Timestamp(y, m, d) ==
  IF y >= MinYear /\ y <= MaxYear /\ m >= 1 /\ m <= 12 /\ d >= 1 /\ d <= DaysIn(m, y)
  THEN [year |-> y, month |-> m, day |-> d]
  ELSE NaT

\* the text matched by one directive; -1 when the text does not match
\* %m : 1[0-2]|0[1-9]|[1-9]
Match_m(f) ==
  CASE Len(f) = 1 /\ IsDigit(f[1]) /\ f[1] # "0" -> DigitVal(f[1])
    [] Len(f) = 2 /\ f[1] = "1" /\ f[2] \in {"0","1","2"} -> 10 + DigitVal(f[2])
    [] Len(f) = 2 /\ f[1] = "0" /\ IsDigit(f[2]) /\ f[2] # "0" -> DigitVal(f[2])
    [] OTHER -> -1

\* %d : 3[01]|[12]\d|0[1-9]|[1-9]| [1-9]
Match_d(f) ==
  CASE Len(f) = 1 /\ IsDigit(f[1]) /\ f[1] # "0" -> DigitVal(f[1])
    [] Len(f) = 2 /\ f[1] = "3" /\ f[2] \in {"0","1"} -> 30 + DigitVal(f[2])
    [] Len(f) = 2 /\ f[1] \in {"1","2"} /\ IsDigit(f[2]) -> 10 * DigitVal(f[1]) + DigitVal(f[2])
    [] Len(f) = 2 /\ f[1] \in {"0"," "} /\ IsDigit(f[2]) /\ f[2] # "0" -> DigitVal(f[2])
    [] OTHER -> -1

\* %Y : \d\d\d\d
Match_Y(f) == IF Len(f) = 4 /\ isdigit(f) THEN int(f) ELSE -1

\* %y : \d\d, 00..68 is 2000..2068 and 69..99 is 1969..1999
Match_y(f) ==
  IF Len(f) = 2 /\ isdigit(f)
  THEN IF int(f) <= 68 THEN 2000 + int(f) ELSE 1900 + int(f)
  ELSE -1

MatchField(dir, f) ==
  CASE dir = "m" -> Match_m(f)
    [] dir = "d" -> Match_d(f)
    [] dir = "Y" -> Match_Y(f)
    [] dir = "y" -> Match_y(f)

FirstIdx(s, c) ==
  IF \E i \in 1..Len(s) : s[i] = c
  THEN CHOOSE i \in 1..Len(s) : s[i] = c /\ \A j \in 1..(i - 1) : s[j] # c
  ELSE 0

MonthNames == <<<<"j","a","n","u","a","r","y">>, <<"f","e","b","r","u","a","r","y">>, <<"m","a","r","c","h">>, <<"a","p","r","i","l">>, <<"m","a","y">>, <<"j","u","n","e">>,
                <<"j","u","l","y">>, <<"a","u","g","u","s","t">>, <<"s","e","p","t","e","m","b","e","r">>, <<"o","c","t","o","b","e","r">>, <<"n","o","v","e","m","b","e","r">>, <<"d","e","c","e","m","b","e","r">>>>

MonthAbbrs == <<<<"j","a","n">>, <<"f","e","b">>, <<"m","a","r">>, <<"a","p","r">>, <<"m","a","y">>, <<"j","u","n">>,
                <<"j","u","l">>, <<"a","u","g">>, <<"s","e","p">>, <<"o","c","t">>, <<"n","o","v">>, <<"d","e","c">>>>

\* a format of three directives separated by one literal character
NumFmt(d1, d2, d3, sep) == [kind |-> "num", dirs |-> <<d1, d2, d3>>, sep |-> sep]
\* "%B %d, %Y" and "%b %d, %Y"
TextFmt(names) == [kind |-> "text", names |-> names]

FieldVal(fmt, vals, dir) == vals[CHOOSE i \in 1..3 : fmt.dirs[i] = dir]

\* the three fields of s around the first two occurrences of sep, << >> when
\* sep does not occur twice
SplitRest(f1, r1, i2) ==
  IF i2 = 0 THEN << >>
  ELSE <<f1, SubSeq(r1, 1, i2 - 1), SubSeq(r1, i2 + 1, Len(r1))>>

SplitHead(s, sep, i1) ==
  IF i1 = 0 THEN << >>
  ELSE SplitRest(SubSeq(s, 1, i1 - 1), SubSeq(s, i1 + 1, Len(s)),
                 FirstIdx(SubSeq(s, i1 + 1, Len(s)), sep))

Split(s, sep) == SplitHead(s, sep, FirstIdx(s, sep))

\* the timestamp of the matched field values
FromVals(fmt, vals) ==
  IF \E i \in 1..3 : vals[i] = -1 THEN NaT
  ELSE Timestamp(FieldVal(fmt, vals, IF \E i \in 1..3 : fmt.dirs[i] = "Y" THEN "Y" ELSE "y"),
                 FieldVal(fmt, vals, "m"), FieldVal(fmt, vals, "d"))

FromFields(fmt, f) ==
  IF f = << >> THEN NaT
  ELSE FromVals(fmt, [i \in 1..3 |-> MatchField(fmt.dirs[i], f[i])])

strptime_num(s, fmt) == FromFields(fmt, Split(s, fmt.sep))

\* the month whose name starts the lower-cased text, 0 when there is none
MonthOf(ls, names) ==
  IF \E m \in 1..12 : Len(ls) >= Len(names[m]) /\ SubSeq(ls, 1, Len(names[m])) = names[m]
  THEN CHOOSE m \in 1..12 : Len(ls) >= Len(names[m]) /\ SubSeq(ls, 1, Len(names[m])) = names[m]
  ELSE 0

\* after the comma: white space, then the year
TextYear(m, day, r3) ==
  IF day = -1 \/ lstrip(r3) = r3 THEN NaT ELSE
  IF Match_Y(lstrip(r3)) = -1 THEN NaT ELSE Timestamp(Match_Y(lstrip(r3)), m, day)

\* after the white space: the day, then a comma
TextDay(m, r2, ic) ==
  IF ic = 0 THEN NaT
  ELSE TextYear(m, Match_d(SubSeq(r2, 1, ic - 1)), SubSeq(r2, ic + 1, Len(r2)))

\* after the month name: white space
TextRest(m, r1) ==
  IF lstrip(r1) = r1 THEN NaT ELSE TextDay(m, lstrip(r1), FirstIdx(lstrip(r1), ","))

TextMonth(s, names, m) ==
  IF m = 0 THEN NaT ELSE TextRest(m, SubSeq(s, Len(names[m]) + 1, Len(s)))

strptime_text(s, fmt) == TextMonth(s, fmt.names, MonthOf(lower(s), fmt.names))

\* pd.to_datetime(date_str, format=fmt); NaT stands for the ValueError
to_datetime(s, fmt) ==
  IF fmt.kind = "num" THEN strptime_num(s, fmt) ELSE strptime_text(s, fmt)

\* the format list with the day/month/year patterns ahead of month/day/year
date_formats_day_first ==
  << NumFmt("d", "m", "Y", "/"), NumFmt("d", "m", "Y", "-"),
     NumFmt("Y", "m", "d", "-"), NumFmt("Y", "m", "d", "/"),
     NumFmt("m", "d", "Y", "/"), NumFmt("m", "d", "Y", "-"),
     TextFmt(MonthNames), TextFmt(MonthAbbrs),
     NumFmt("m", "d", "Y", ".") >>

date_formats ==
  << NumFmt("m", "d", "Y", "/"), NumFmt("m", "d", "Y", "-"),
     NumFmt("Y", "m", "d", "-"), NumFmt("Y", "m", "d", "/"),
     NumFmt("d", "m", "Y", "/"), NumFmt("d", "m", "Y", "-"),
     TextFmt(MonthNames), TextFmt(MonthAbbrs),
     NumFmt("m", "d", "Y", ".") >>

two_digit_formats ==
  << NumFmt("m", "d", "y", "/"), NumFmt("m", "d", "y", "-"), NumFmt("m", "d", "y", ".") >>

\* the least index of seq that holds a date, 0 when there is none
FirstDated(seq) ==
  IF \A i \in 1..Len(seq) : seq[i] = NaT THEN 0
  ELSE CHOOSE i \in 1..Len(seq) : seq[i] # NaT /\ \A j \in 1..(i - 1) : seq[j] = NaT

\* the date of the first entry of seq that holds one, NaT when there is none
FirstDate(seq) == IF FirstDated(seq) = 0 THEN NaT ELSE seq[FirstDated(seq)]

\* index of the first format of fmts that parses s, 0 when none does
FirstParsing(s, fmts) == FirstDated([i \in 1..Len(fmts) |-> to_datetime(s, fmts[i])])

\* str(age) for a cell: a missing value prints as "nan"
str(a) == IF a = NaN THEN <<"n","a","n">> ELSE a

\* age and str(age).strip() and str(age).strip().isdigit()
AgeIsNumeric(a) ==
  a # None /\ a # EmptyStr /\ strip(str(a)) # EmptyStr /\ isdigit(strip(str(a)))

\* the year the two-digit branch builds from the parsed year
ResolveYear(year, a, now) ==
  IF AgeIsNumeric(a)
  THEN LET age_num == int(strip(str(a)))
           birth_year_estimate == now - age_num
       IN  IF year < 50
           THEN IF birth_year_estimate >= 2000
                THEN 2000 + (year - 2000)
                ELSE 1900 + year
           ELSE 1900 + (year - 1900)
  ELSE IF year < 50 THEN 2000 + year ELSE year

\* pd.Timestamp(year=year, month=month, day=day) built from temp_date
Rebuild(temp_date, a, now) ==
  IF temp_date = NaT THEN NaT
  ELSE Timestamp(ResolveYear(temp_date.year, a, now), temp_date.month, temp_date.day)

\* one pass of the loop over two_digit_formats: the timestamp built for fmt
TwoDigitDate(s, fmt, a, now) == Rebuild(to_datetime(s, fmt), a, now)

\* the timestamps the passes of the loop over two_digit_formats build
TwoDigitDates(s, a, now) ==
  [i \in 1..Len(two_digit_formats) |-> TwoDigitDate(s, two_digit_formats[i], a, now)]

FirstTwoDigit(s, a, now) == FirstDated(TwoDigitDates(s, a, now))

Pad2(n) == <<DigitChars[(n \div 10) + 1], DigitChars[(n % 10) + 1]>>

Pad4(n) == <<DigitChars[(n \div 1000) + 1], DigitChars[((n \div 100) % 10) + 1],
             DigitChars[((n \div 10) % 10) + 1], DigitChars[(n % 10) + 1]>>

\* date_obj.strftime("%m-%d-%Y")
strftime(d) == Pad2(d.month) \o <<"-">> \o Pad2(d.day) \o <<"-">> \o Pad4(d.year)

\* pd.to_datetime(date_str, errors='coerce'): the free-form parser of the
\* library; ff is what it answers for each string
FreeFormParse(s, ff) == IF s \in DOMAIN ff THEN ff[s] ELSE NaT

\* date_obj after the two loops and the free-form parse
Settle(four, two, free) ==
  IF four # NaT THEN four ELSE IF two # NaT THEN two ELSE free

\* the date the body of format_date settles on for the stripped string s
ParseDate(s, a, now, ff) ==
  Settle(FirstDate([i \in 1..Len(date_formats) |-> to_datetime(s, date_formats[i])]),
         FirstDate(TwoDigitDates(s, a, now)),
         FreeFormParse(s, ff))

\* lines 117-120
Render(date_obj, s) == IF date_obj # NaT THEN strftime(date_obj) ELSE s

format_date(d, a, now, ff) ==
  IF isna(d) \/ d = None \/ d = EmptyStr \/ strip(d) = EmptyStr THEN EmptyStr
  ELSE Render(ParseDate(strip(d), a, now, ff), strip(d))

(***************************************************************************)
(* format_date as a function of its arguments: the inputs                  *)
(***************************************************************************)
Spaces(n) == [i \in 1..n |-> " "]

\* a number written with or without a leading zero
Num(n, padded) ==
  IF padded \/ n >= 10 THEN Pad2(n) ELSE <<DigitChars[n + 1]>>

Capitalize(s) ==
  [i \in 1..Len(s) |->
     IF i = 1 THEN UpperChars[CHOOSE k \in 1..26 : LowerChars[k] = s[1]] ELSE s[i]]

APool == {2, 3, 4, 13}
BPool == {4, 12, 30, 31}
Year4Pool == {1600, 1990}
Year2Pool == {5, 49, 55, 68, 69, 90}
SepPool == {"/", "-", "."}
TextMonthPool == {3, 5, 12}
RawPool == {<<"n","o","t","-","a","-","d","a","t","e">>, <<"n","/","a">>, <<"0","3","/"," ","4","/","1","9","9","0">>, <<"1","9","9","0",".","0","3",".","0","4">>}
AgePool == {None, NaN, EmptyStr, <<"2","5">>, <<"2","6">>, <<" ","8","0"," ">>, <<"a","b","c">>}
\* the companion age matters to the two-digit years only
AgesFor(g) == IF g.kind = "aby" THEN AgePool ELSE {None, <<"2","5">>}
YearNowPool == {2025, 2026}
FreeDate == [year |-> 2001, month |-> 2, day |-> 3]
FreeOutcomes == {NaT, FreeDate}

GenPool ==
  [kind : {"abY", "aby"}, a : APool, b : BPool, y : Year4Pool \cup Year2Pool,
   sep : SepPool, padded : BOOLEAN, raw : {EmptyStr}]
  \cup [kind : {"Yab"}, a : APool, b : BPool, y : Year4Pool,
        sep : SepPool, padded : {TRUE}, raw : {EmptyStr}]
  \cup [kind : {"text"}, a : TextMonthPool, b : BPool, y : Year4Pool,
        sep : {" "}, padded : BOOLEAN, raw : {EmptyStr}]
  \cup [kind : {"raw"}, a : {0}, b : {0}, y : {0},
        sep : {" "}, padded : {FALSE}, raw : RawPool \cup {EmptyStr}]

GenOk(g) ==
  /\ g.kind = "abY" => g.y \in Year4Pool
  /\ g.kind = "aby" => g.y \in Year2Pool

\* the text of a generated date cell
Build(g) ==
  CASE g.kind = "abY" ->
         Num(g.a, g.padded) \o <<g.sep>> \o Num(g.b, g.padded) \o <<g.sep>> \o Pad4(g.y)
    [] g.kind = "aby" ->
         Num(g.a, g.padded) \o <<g.sep>> \o Num(g.b, g.padded) \o <<g.sep>> \o Pad2(g.y)
    [] g.kind = "Yab" ->
         Pad4(g.y) \o <<g.sep>> \o Pad2(g.a) \o <<g.sep>> \o Pad2(g.b)
    [] g.kind = "text" ->
         Capitalize(IF g.padded THEN MonthNames[g.a] ELSE MonthAbbrs[g.a])
           \o <<" ">> \o Num(g.b, FALSE) \o <<",", " ">> \o Pad4(g.y)
    [] OTHER -> g.raw

\* no explicit pattern parses the stripped string
NoPatternParses(s, a, now) ==
  FirstParsing(s, date_formats) = 0 /\ FirstTwoDigit(s, a, now) = 0

NoTable == [cols |-> << >>, index |-> << >>, data |-> << >>]

InitDate ==
  /\ pc = "format_date"
  /\ run = 0
  /\ df = NoTable
  /\ cleaned = NoTable
  /\ first = NoTable
  /\ matches_found = 0
  /\ current_year \in YearNowPool
  /\ gen \in {g \in GenPool : GenOk(g)}
  /\ \E lp \in 0..MaxPad, rp \in 0..MaxPad :
        date_str \in {Spaces(lp) \o Build(gen) \o Spaces(rp), NaN}
  /\ age \in AgesFor(gen)
  /\ freeform \in [ {s \in {strip(date_str)} : date_str # NaN /\ NoPatternParses(s, age, current_year)}
                     -> FreeOutcomes ]
  /\ result = None

\* result = cleaner.format_date(date_str, age)
CallFormatDate ==
  /\ pc = "format_date"
  /\ result' = format_date(date_str, age, current_year, freeform)
  /\ pc' = "returned"
  /\ UNCHANGED <<run, df, cleaned, first, matches_found,
                 current_year, freeform, gen, date_str, age>>

NextDate == CallFormatDate

SpecDate == InitDate /\ [][NextDate]_vars

(***************************************************************************)
(* The cleaning rules of OptimizedCSVCleaner.__init__                      *)
(***************************************************************************)
header_mappings ==
  ("Badge" :> "BADGE") @@ ("First Name" :> "FIRSTNAME") @@ ("Middle Name" :> "MIDDLENAME") @@
  ("Last Name" :> "LASTNAME") @@ ("Date Of Birth" :> "BDAY") @@ ("Age" :> "AGE") @@
  ("Home Facility" :> "LOCATION") @@ ("Email" :> "EMAIL") @@ ("Do Not Mail" :> "DO_NOT_MAIL") @@
  ("Mobile Phone" :> "SMS") @@ ("Line Address" :> "ADDRESS") @@ ("City" :> "CITY") @@
  ("State" :> "STATE") @@ ("Postal" :> "ZIP") @@ ("Country" :> "COUNTRY") @@
  ("Last Visit Date" :> "LAST_VISIT") @@ ("Participant Agreement" :> "PARTICIPANT_AGREEMENT") @@
  ("Belay" :> "BELAY_CERTIFIED") @@ ("Climbing Experience" :> "EXPERIENCE_LEVEL") @@
  ("Referred By" :> "REFERRED_BY") @@ ("How Did You Hear About Us" :> "HOW_DID_YOU_HEAR") @@
  ("Gender" :> "GENDER") @@ ("Pronouns" :> "PRONOUN") @@ ("Outdoor Aor" :> "OUTDOOR_AOR") @@
  ("Eligible For S1" :> "ELIGIBLE_S1") @@ ("Customer Id" :> "CUSTOMER_ID")

GUEST == <<"G","U","E","S","T">>
YES == <<"Y","E","S">>

badge_mappings ==
  (<<"S","t","a","f","f">> :> <<"S","T","A","F","F">>) @@                  \* "Staff": "STAFF"
  (<<"M","e","m","b","e","r">> :> <<"M","E","M","B","E","R">>) @@                \* "Member": "MEMBER"
  (<<"M","e","m","b","e","r"," ","(","f","r","z",")">> :> <<"F","R","O","Z","E","N">>) @@          \* "Member (frz)": "FROZEN"
  (<<"3","0","-","D","a","y"," ","M","e","m","b","e","r">> :> <<"P","R","E","P","A","I","D","-","3","0">>) @@     \* "30-Day Member": "PREPAID-30"
  (<<"D","a","y"," ","P","a","s","s"," ","P","a","c","k">> :> <<"M","U","L","T","I","_","P","A","S","S">>)        \* "Day Pass Pack": "MULTI_PASS"

location_mappings ==
  (<<"A","l","e","x","a","n","d","r","i","a">> :> <<"A","L","X">>) @@               \* "Alexandria": "ALX"
  (<<"S","t","e","r","l","i","n","g">> :> <<"S","T","R">>) @@                 \* "Sterling": "STR"
  (<<"R","i","o">> :> <<"R","I","O">>)                         \* "Rio": "RIO"

cell_mappings == ("BADGE" :> badge_mappings) @@ ("LOCATION" :> location_mappings)

\* the columns of cell_mappings in the order the dict lists them
cell_mapping_cols == <<"BADGE", "LOCATION">>

interest_keywords ==
  << [keyword |-> <<"A","d","u","l","t"," ","C","l","i","m","b","i","n","g"," ","P","r","o","g","r","a","m","s">>, col |-> "INTEREST_ADULT"],
     [keyword |-> <<"F","i","t","n","e","s","s"," ","+"," ","Y","o","g","a">>, col |-> "INTEREST_FITNESS"],
     [keyword |-> <<"Y","o","u","t","h"," ","C","l","i","m","b","i","n","g"," ","P","r","o","g","r","a","m","s">>, col |-> "INTEREST_YOUTH"],
     [keyword |-> <<"O","u","t","d","o","o","r"," ","C","l","i","m","b","i","n","g"," ","P","r","o","g","r","a","m","s"," ","(","S","R"," ","C","l","i","m","b","i","n","g"," ","G","u","i","d","e","s",")">>, col |-> "INTEREST_OUTDOOR"] >>

date_fields == <<"BDAY", "LAST_VISIT">>

interest_columns == <<"INTEREST_YOUTH", "INTEREST_ADULT", "INTEREST_OUTDOOR", "INTEREST_FITNESS">>

valid_columns ==
  {header_mappings[k] : k \in DOMAIN header_mappings}
    \cup {"INTEREST_YOUTH", "INTEREST_ADULT", "INTEREST_OUTDOOR", "INTEREST_FITNESS"}

(***************************************************************************)
(* Tables (pandas DataFrame)                                               *)
(***************************************************************************)
Rows(t) == 1..Len(t.index)

\* col in df.columns
HasCol(t, c) == \E i \in 1..Len(t.cols) : t.cols[i] = c

ColIdx(t, c) == CHOOSE i \in 1..Len(t.cols) : t.cols[i] = c

\* df[c] as the sequence of its cells, in row order
Column(t, c) == [r \in Rows(t) |-> t.data[r][ColIdx(t, c)]]

\* df[c] = vals : replaces the column in place, or appends a new one
SetColumn(t, c, vals) ==
  IF HasCol(t, c)
  THEN [t EXCEPT !.data = [r \in Rows(t) |-> [t.data[r] EXCEPT ![ColIdx(t, c)] = vals[r]]]]
  ELSE [t EXCEPT !.cols = Append(t.cols, c),
                 !.data = [r \in Rows(t) |-> Append(t.data[r], vals[r])]]

\* the subsequence of s at the positions that satisfy Keep
RECURSIVE SelectIdx(_, _, _)
SelectIdx(s, keep, i) ==
  IF i > Len(s) THEN << >>
  ELSE (IF i \in keep THEN <<s[i]>> ELSE << >>) \o SelectIdx(s, keep, i + 1)

\* a projection that also drops the rows left with no value
ProjectDropEmptyRows(t, keep) ==
  LET live == {r \in Rows(t) : \E i \in keep : t.data[r][i] \notin {EmptyStr, NaN}}
  IN  [cols |-> SelectIdx(t.cols, keep, 1),
       index |-> SelectIdx(t.index, live, 1),
       data |-> SelectIdx([r \in Rows(t) |-> SelectIdx(t.data[r], keep, 1)], live, 1)]

\* df[final_cols] for the column positions keep
Project(t, keep) ==
  [t EXCEPT !.cols = SelectIdx(t.cols, keep, 1),
            !.data = [r \in Rows(t) |-> SelectIdx(t.data[r], keep, 1)]]

\* df.drop(c, axis=1, inplace=True)
DropCol(t, c) == Project(t, {i \in 1..Len(t.cols) : t.cols[i] # c})

\* df[c] = df[c].apply(f), f given as the sequence of its results
ApplyColumn(t, c, vals) == SetColumn(t, c, vals)

(***************************************************************************)
(* process_interests                                                       *)
(***************************************************************************)
RECURSIVE BlankColumns(_, _)
BlankColumns(t, names) ==
  IF names = << >> THEN t
  ELSE BlankColumns(SetColumn(t, Head(names), [r \in Rows(t) |-> EmptyStr]), Tail(names))

\* the free-text column process_interests scans, "" when there is none
InterestCol(t) ==
  IF HasCol(t, "Interest") THEN "Interest"
  ELSE IF HasCol(t, "interest") THEN "interest"
  ELSE ""

\* the keyword test without the lower-casing
KeywordHitCaseSensitive(value, k) ==
  /\ notna(value) /\ value # EmptyStr
  /\ strip(value) # EmptyStr
  /\ Contains(interest_keywords[k].keyword, strip(value))

\* keyword k is found in the cell value
KeywordHit(value, k) ==
  /\ notna(value) /\ value # EmptyStr
  /\ strip(value) # EmptyStr
  /\ Contains(lower(interest_keywords[k].keyword), lower(strip(value)))

\* the (row, keyword) pairs for which the scan writes "YES"
InterestHits(t, icol) ==
  {h \in Rows(t) \X (1..Len(interest_keywords)) : KeywordHit(Column(t, icol)[h[1]], h[2])}

\* df.loc[idx, col_name] = "YES" for every hit
RECURSIVE MarkHits(_, _, _)
MarkHits(t, hits, k) ==
  IF k > Len(interest_keywords) THEN t
  ELSE LET c == interest_keywords[k].col
           labels == {t.index[h[1]] : h \in {x \in hits : x[2] = k}}
           vals == [r \in Rows(t) |->
                      IF t.index[r] \in labels THEN YES ELSE Column(t, c)[r]]
       IN  MarkHits(SetColumn(t, c, vals), hits, k + 1)

\* lines 127-148: the four columns are blanked, the free-text column is
\* scanned and dropped
ScanInterests(t) ==
  LET t1 == BlankColumns(t, interest_columns)
      icol == InterestCol(t1)
  IN  IF icol = "" THEN t1
      ELSE DropCol(MarkHits(t1, InterestHits(t1, icol), 1), icol)

\* df['Youth Programs Interest'].str.lower() == 'yes'
YouthMask(t) ==
  [r \in Rows(t) |->
     LET v == Column(t, "Youth Programs Interest")[r]
     IN  notna(v) /\ lower(v) = <<"y","e","s">>]

\* the step writing the whole column from the mask
YouthProgramsOverwrite(t) ==
  IF HasCol(t, "Youth Programs Interest")
  THEN LET mask == YouthMask(t)
           vals == [r \in Rows(t) |-> IF mask[r] THEN YES ELSE EmptyStr]
       IN  DropCol(SetColumn(t, "INTEREST_YOUTH", vals), "Youth Programs Interest")
  ELSE t

\* lines 150-153
YouthPrograms(t) ==
  IF HasCol(t, "Youth Programs Interest")
  THEN LET mask == YouthMask(t)
           vals == [r \in Rows(t) |-> IF mask[r] THEN YES ELSE Column(t, "INTEREST_YOUTH")[r]]
       IN  DropCol(SetColumn(t, "INTEREST_YOUTH", vals), "Youth Programs Interest")
  ELSE t

(***************************************************************************)
(* clean_dataframe, stage by stage                                         *)
(***************************************************************************)
\* cleaned.rename(columns=self.header_mappings, inplace=True)
Rename(t) ==
  [t EXCEPT !.cols = [i \in 1..Len(t.cols) |->
                        IF t.cols[i] \in DOMAIN header_mappings
                        THEN header_mappings[t.cols[i]] ELSE t.cols[i]]]

\* series.map(mappings).fillna(series), on one cell
MapCell(mappings, v) == IF v \in DOMAIN mappings THEN mappings[v] ELSE v

\* the default without the fillna
DefaultBadgeEmptyOnly(v) == IF v = EmptyStr THEN GUEST ELSE v

\* series.fillna("").replace("", "GUEST"), on one cell
DefaultBadge(v) == IF isna(v) \/ v = EmptyStr THEN GUEST ELSE v

MapColumn(t, col) ==
  IF HasCol(t, col)
  THEN LET src == [r \in Rows(t) |->
                     IF col = "BADGE" THEN DefaultBadge(Column(t, col)[r])
                     ELSE Column(t, col)[r]]
       IN  SetColumn(t, col, [r \in Rows(t) |-> MapCell(cell_mappings[col], src[r])])
  ELSE t

RECURSIVE MapColumns(_, _)
MapColumns(t, names) ==
  IF names = << >> THEN t ELSE MapColumns(MapColumn(t, Head(names)), Tail(names))

CleanPhoneColumn(t) ==
  IF HasCol(t, "SMS")
  THEN ApplyColumn(t, "SMS", [r \in Rows(t) |-> clean_phone(Column(t, "SMS")[r])])
  ELSE t

FormatDateField(t, date_field, now, ff) ==
  IF HasCol(t, date_field)
  THEN IF date_field = "BDAY" /\ HasCol(t, "AGE")
       THEN ApplyColumn(t, date_field,
              [r \in Rows(t) |->
                 format_date(Column(t, date_field)[r], Column(t, "AGE")[r], now, ff)])
       ELSE ApplyColumn(t, date_field,
              [r \in Rows(t) |-> format_date(Column(t, date_field)[r], None, now, ff)])
  ELSE t

RECURSIVE FormatDateFields(_, _, _, _)
FormatDateFields(t, fields, now, ff) ==
  IF fields = << >> THEN t
  ELSE FormatDateFields(FormatDateField(t, Head(fields), now, ff), Tail(fields), now, ff)

\* no filtering of the columns
FinalColsUnfiltered(t) == 1..Len(t.cols)

\* final_cols = [col for col in cleaned.columns if col in self.valid_columns]
FinalCols(t) == {i \in 1..Len(t.cols) : t.cols[i] \in valid_columns}

(***************************************************************************)
(* The input tables                                                        *)
(***************************************************************************)
InterestPool == {<<"A","d","u","l","t"," ","C","l","i","m","b","i","n","g"," ","P","r","o","g","r","a","m","s",","," ","F","i","t","n","e","s","s"," ","+"," ","Y","o","g","a">>, <<"y","o","u","t","h"," ","c","l","i","m","b","i","n","g"," ","p","r","o","g","r","a","m","s">>,
                 <<"Y","o","g","a">>, NaN}
BadgePool == {NaN, EmptyStr, <<"M","e","m","b","e","r">>, <<"V","I","P">>}
FacilityPool == {<<"A","l","e","x","a","n","d","r","i","a">>, <<"R","e","s","t","o","n">>, NaN}
YouthPool == {<<"Y","e","s">>, <<"n","o">>, NaN}
PhonePool == {<<"(","5","5","5",")"," ","1","2","3","-","4","5","6","7">>, NaN}
BirthPool == {<<"0","3","/","0","4","/","0","5">>, <<" ","n","/","a"," ">>, <<"1","3","/","0","2","/","1","9","9","0">>}
VisitPool == {<<"2","0","2","4","-","0","1","-","3","1">>, EmptyStr}
NamePool == {<<"A","n","n">>, <<"B","o","b">>}

Col(name, pool) == [name |-> name, pool |-> pool]

Schemas ==
  { << Col("First Name", NamePool), Col("Badge", BadgePool), Col("Notes", {<<"x">>}) >>,
    << Col("Home Facility", FacilityPool), Col("BADGE", BadgePool) >>,
    << Col("Interest", InterestPool), Col("Youth Programs Interest", YouthPool) >>,
    << Col("Interest", InterestPool), Col("Notes", {<<"x">>}), Col("First Name", NamePool) >>,
    << Col("Date Of Birth", BirthPool), Col("Age", {<<"2","6">>, NaN}), Col("Mobile Phone", PhonePool) >>,
    << Col("Last Visit Date", VisitPool), Col("INTEREST", InterestPool) >>,
    << Col("interest", InterestPool), Col("Date Of Birth", BirthPool) >>,
    << Col("InTeReSt", {<<"F","i","t","n","e","s","s"," ","+"," ","Y","o","g","a">>}), Col("interest", {<<"Y","o","g","a">>, <<"A","d","u","l","t"," ","C","l","i","m","b","i","n","g"," ","P","r","o","g","r","a","m","s">>}),
       Col("Interest", {<<"Y","o","g","a">>, <<"Y","o","u","t","h"," ","C","l","i","m","b","i","n","g"," ","P","r","o","g","r","a","m","s">>}) >>,
    << Col("INTEREST_YOUTH", {YES, EmptyStr}), Col("Youth Programs Interest", YouthPool),
       Col("LOCATION", {<<"R","i","o">>, <<"R","I","O">>}) >>,
    << Col("Notes", {<<"x">>, NaN}) >> }

RECURSIVE RowSet(_)
RowSet(sch) ==
  IF sch = << >> THEN { << >> }
  ELSE {<<v>> \o rest : v \in Head(sch).pool, rest \in RowSet(Tail(sch))}

\* the tables read from the schema sch with n rows, labelled 0..n-1
Tables(sch, n) ==
  {[cols |-> [i \in 1..Len(sch) |-> sch[i].name],
    index |-> [r \in 1..n |-> r - 1],
    data |-> d] : d \in [1..n -> RowSet(sch)]}

DateSourceCols == {"Date Of Birth", "BDAY", "Last Visit Date", "LAST_VISIT"}

\* the stripped date cells of t that no explicit pattern parses
UnparsedDates(t) ==
  {strip(t.data[r][i]) : r \in Rows(t),
                         i \in {j \in 1..Len(t.cols) : t.cols[j] \in DateSourceCols}}
    \cap {s \in {strip(v) : v \in (BirthPool \cup VisitPool) \ {NaN}} :
            s # EmptyStr /\ FirstParsing(s, date_formats) = 0
                         /\ FirstParsing(s, two_digit_formats) = 0}

Init ==
  /\ pc = "idle"
  /\ run = 0
  /\ \E sch \in Schemas, n \in 0..MaxRows : df \in Tables(sch, n)
  /\ cleaned = NoTable
  /\ first = NoTable
  /\ matches_found = 0
  /\ current_year = 2026
  /\ freeform \in [UnparsedDates(df) -> FreeOutcomes]
  /\ gen = [kind |-> "raw", a |-> 0, b |-> 0, y |-> 0, sep |-> " ", padded |-> FALSE,
            raw |-> EmptyStr]
  /\ date_str = EmptyStr
  /\ age = None
  /\ result = None

\* clean_dataframe(df): cleaned = df.copy()
Call ==
  /\ pc = "idle"
  /\ run < MaxRuns
  /\ run' = run + 1
  /\ cleaned' = df
  /\ pc' = "rename"
  /\ UNCHANGED <<df, first, matches_found, current_year, freeform, gen, date_str, age, result>>

RenameHeaders ==
  /\ pc = "rename"
  /\ cleaned' = Rename(cleaned)
  /\ pc' = "interests"
  /\ UNCHANGED <<run, df, first, matches_found, current_year, freeform, gen, date_str, age, result>>

\* process_interests, lines 127-148
ProcessInterestsScan ==
  /\ pc = "interests"
  /\ cleaned' = ScanInterests(cleaned)
  /\ matches_found' =
       LET t1 == BlankColumns(cleaned, interest_columns)
       IN  IF InterestCol(t1) = "" THEN matches_found
           ELSE Cardinality(InterestHits(t1, InterestCol(t1)))
  /\ pc' = "youth"
  /\ UNCHANGED <<run, df, first, current_year, freeform, gen, date_str, age, result>>

\* process_interests, lines 150-155
ProcessInterestsYouth ==
  /\ pc = "youth"
  /\ cleaned' = YouthPrograms(cleaned)
  /\ pc' = "map"
  /\ UNCHANGED <<run, df, first, matches_found, current_year, freeform, gen, date_str, age, result>>

ApplyCellMappings ==
  /\ pc = "map"
  /\ cleaned' = MapColumns(cleaned, cell_mapping_cols)
  /\ pc' = "phone"
  /\ UNCHANGED <<run, df, first, matches_found, current_year, freeform, gen, date_str, age, result>>

CleanPhones ==
  /\ pc = "phone"
  /\ cleaned' = CleanPhoneColumn(cleaned)
  /\ pc' = "dates"
  /\ UNCHANGED <<run, df, first, matches_found, current_year, freeform, gen, date_str, age, result>>

FormatDates ==
  /\ pc = "dates"
  /\ cleaned' = FormatDateFields(cleaned, date_fields, current_year, freeform)
  /\ pc' = "filter"
  /\ UNCHANGED <<run, df, first, matches_found, current_year, freeform, gen, date_str, age, result>>

\* the projection and the return; the returned table is what a further call
\* of clean_dataframe is given
FilterColumns ==
  /\ pc = "filter"
  /\ cleaned' = Project(cleaned, FinalCols(cleaned))
  /\ df' = cleaned'
  /\ first' = IF run = 1 THEN cleaned' ELSE first
  /\ pc' = "idle"
  /\ UNCHANGED <<run, matches_found, current_year, freeform, gen, date_str, age, result>>

Next ==
  \/ Call
  \/ RenameHeaders
  \/ ProcessInterestsScan
  \/ ProcessInterestsYouth
  \/ ApplyCellMappings
  \/ CleanPhones
  \/ FormatDates
  \/ FilterColumns

Spec == Init /\ [][Next]_vars

(***************************************************************************)
(* Properties                                                              *)
(***************************************************************************)
Returned == pc = "idle" /\ run >= 1

\* C1: clean_dataframe is idempotent: the table returned by a second call on
\* the table returned by the first call has the same columns in the same
\* order and the same cells, also when the first call wrote "YES" into an
\* INTEREST_* column.
Idempotence ==
  (pc = "idle" /\ run >= 2) => (df.cols = first.cols /\ df.data = first.data)

\* the columns no stage after the renaming writes to
Untouched(c) ==
  c \notin {"BADGE", "LOCATION", "SMS", "BDAY", "LAST_VISIT", "INTEREST_YOUTH",
            "INTEREST_ADULT", "INTEREST_OUTDOOR", "INTEREST_FITNESS"}

StepKeepsRows ==
  /\ pc = "idle" =>
       cleaned'.index = df.index /\ Len(cleaned'.data) = Len(df.data)
  /\ pc # "idle" =>
       /\ cleaned'.index = cleaned.index
       /\ Len(cleaned'.data) = Len(cleaned.data)
       /\ pc # "rename" =>
            \A c \in {cleaned.cols[i] : i \in 1..Len(cleaned.cols)} :
              Untouched(c) /\ HasCol(cleaned', c) => Column(cleaned', c) = Column(cleaned, c)
  /\ pc = "filter" =>
       df'.index = df.index /\ Len(df'.data) = Len(df.data)

\* C2: every stage of clean_dataframe keeps the rows of its input: the same
\* row labels in the same order and the same number of rows, with the cells
\* of the columns it does not write left in their rows; the returned table
\* has the rows of the argument.  This covers tables with no row and tables
\* with none of the expected columns.
RowsPreserved == [][StepKeepsRows]_vars

RowsPreservedWitness ==
  /\ Returned
  /\ Len(df.data) >= 2
  /\ df.index = [r \in 1..Len(df.data) |-> r - 1]

AllowList ==
  {"BADGE", "FIRSTNAME", "MIDDLENAME", "LASTNAME", "BDAY", "AGE", "LOCATION", "EMAIL",
   "DO_NOT_MAIL", "SMS", "ADDRESS", "CITY", "STATE", "ZIP", "COUNTRY", "LAST_VISIT",
   "PARTICIPANT_AGREEMENT", "BELAY_CERTIFIED", "EXPERIENCE_LEVEL", "REFERRED_BY",
   "HOW_DID_YOU_HEAR", "GENDER", "PRONOUN", "OUTDOOR_AOR", "ELIGIBLE_S1", "CUSTOMER_ID",
   "INTEREST_YOUTH", "INTEREST_ADULT", "INTEREST_OUTDOOR", "INTEREST_FITNESS"}

ProjectionStep ==
  pc = "filter" =>
    /\ \A i \in 1..Len(df'.cols) : df'.cols[i] \in AllowList
    /\ \A i \in 1..Len(df.cols) :
         (df.cols[i] \notin AllowList /\ df.cols[i] \notin DOMAIN header_mappings)
           => ~HasCol(df', df.cols[i])
    /\ \A i \in 1..Len(df'.cols) : HasCol(cleaned, df'.cols[i])
    /\ \A i, j \in 1..Len(df'.cols) :
         i < j => ColIdx(cleaned, df'.cols[i]) < ColIdx(cleaned, df'.cols[j])

\* C3: every column of the table clean_dataframe returns is in the
\* allow-list; an input column that is not renamed to an allow-list name and
\* does not carry one is absent from the output; the surviving columns are in
\* the order they had before the projection.
ProjectionClosure == [][ProjectionStep]_vars

ProjectionClosureWitness ==
  /\ Returned
  /\ Len(df.data) >= 1
  /\ df.cols = <<"FIRSTNAME", "BADGE", "INTEREST_YOUTH", "INTEREST_ADULT",
                 "INTEREST_OUTDOOR", "INTEREST_FITNESS">>

Dash == <<"-">>

\* the date cell was generated as  a <sep> b <sep> yy  with a, b a month and
\* a day of every year, and the age is a string of digits
TwoDigitCase ==
  /\ pc = "returned"
  /\ gen.kind = "aby" /\ date_str # NaN
  /\ gen.a <= 12 /\ gen.b <= DaysIn(gen.a, 1901)
  /\ age # NaN /\ age # None /\ isdigit(age)

\* the year the two-digit rule names for the written year yy and estimate e
RuleYear(yy, e) ==
  IF yy < 50 THEN (IF e >= 2000 THEN 2000 + yy ELSE 1900 + yy) ELSE 1900 + yy

\* C4: for a date cell matching only a two-digit-year pattern and a numeric
\* age, with E = current year - age, format_date writes the year 2000+yy when
\* yy < 50 and E >= 2000, 1900+yy when yy < 50 and E < 2000, and 1900+yy when
\* yy >= 50.
TwoDigitYearByAge ==
  TwoDigitCase =>
    result = Pad2(gen.a) \o Dash \o Pad2(gen.b) \o Dash
               \o Pad4(RuleYear(gen.y, current_year - int(age)))

\* C5: a non-blank date cell that no four-digit-year pattern, no
\* two-digit-year pattern and not the free-form parse reads is returned by
\* format_date exactly as given, surrounding whitespace included.
RawStringOnFailure ==
  ( /\ pc = "returned"
    /\ date_str # NaN /\ strip(date_str) # EmptyStr
    /\ NoPatternParses(strip(date_str), age, current_year)
    /\ FreeFormParse(strip(date_str), freeform) = NaT )
  => result = date_str

\* C6: with an 'Interest' column and no 'Youth Programs Interest' column,
\* after process_interests the cell of row r in the column of keyword k is
\* "YES" if the lower-cased keyword is contained in the lower-cased interest
\* cell of r and "" otherwise, the match count is the number of matching
\* (row, keyword) pairs, and the 'Interest' column is gone.
InterestExtraction ==
  ( /\ pc = "map"
    /\ HasCol(df, "Interest") /\ ~HasCol(df, "Youth Programs Interest") )
  => LET text(r) == Column(df, "Interest")[r]
         hit(r, k) == /\ text(r) # NaN
                      /\ Contains(lower(interest_keywords[k].keyword), lower(text(r)))
     IN  /\ \A r \in Rows(df), k \in 1..Len(interest_keywords) :
              Column(cleaned, interest_keywords[k].col)[r]
                = IF hit(r, k) THEN YES ELSE EmptyStr
         /\ matches_found =
              Cardinality({h \in Rows(df) \X (1..Len(interest_keywords)) : hit(h[1], h[2])})
         /\ ~HasCol(cleaned, "Interest")

InterestExtractionWitness ==
  /\ pc = "map"
  /\ HasCol(df, "Interest") /\ ~HasCol(df, "Youth Programs Interest")
  /\ matches_found >= 2
  /\ \E r \in Rows(cleaned) :
       /\ Column(cleaned, "INTEREST_ADULT")[r] = YES
       /\ Column(cleaned, "INTEREST_FITNESS")[r] = YES
       /\ Column(cleaned, "INTEREST_YOUTH")[r] = EmptyStr
       /\ Column(cleaned, "INTEREST_OUTDOOR")[r] = EmptyStr

\* the column names of the inputs that read "interest" when letter case is
\* ignored
IsInterestIgnoringCase(c) == c \in {"Interest", "interest", "INTEREST", "InTeReSt"}

\* C7: every input column whose name equals "Interest" ignoring letter case
\* is scanned for the keywords: a keyword contained in a cell of such a
\* column sets the keyword's INTEREST_* column of that row to "YES".
InterestColumnAnyCase ==
  (pc = "youth" /\ run = 1) =>
    \A i \in 1..Len(df.cols) :
      IsInterestIgnoringCase(df.cols[i]) =>
        \A r \in Rows(df), k \in 1..Len(interest_keywords) :
          ( /\ df.data[r][i] # NaN
            /\ Contains(lower(interest_keywords[k].keyword), lower(df.data[r][i])) )
          => Column(cleaned, interest_keywords[k].col)[r] = YES

\* map-with-fallback: the table value for a key, the value itself otherwise
Mapped(table, x) == IF x \in DOMAIN table THEN table[x] ELSE x

ValueMappingStep ==
  pc = "map" =>
    /\ cleaned'.cols = cleaned.cols
    /\ HasCol(cleaned, "BADGE") =>
         \A r \in Rows(cleaned) :
           LET v == Column(cleaned, "BADGE")[r]
           IN  /\ Column(cleaned', "BADGE")[r]
                    = Mapped(badge_mappings, IF v = NaN \/ v = EmptyStr THEN GUEST ELSE v)
               /\ (v = NaN \/ v = EmptyStr) => Column(cleaned', "BADGE")[r] = GUEST
    /\ HasCol(cleaned, "LOCATION") =>
         \A r \in Rows(cleaned) :
           LET v == Column(cleaned, "LOCATION")[r]
           IN  /\ Column(cleaned', "LOCATION")[r] = Mapped(location_mappings, v)
               /\ v = <<"A","l","e","x","a","n","d","r","i","a">> => Column(cleaned', "LOCATION")[r] = <<"A","L","X">>
               /\ v = <<"S","t","e","r","l","i","n","g">> => Column(cleaned', "LOCATION")[r] = <<"S","T","R">>
               /\ v = <<"R","i","o">> => Column(cleaned', "LOCATION")[r] = <<"R","I","O">>
    /\ \A i \in 1..Len(cleaned.cols) :
         cleaned.cols[i] \notin {"BADGE", "LOCATION"} =>
           \A r \in Rows(cleaned) : cleaned'.data[r][i] = cleaned.data[r][i]

\* C8: the value-mapping stage leaves in BADGE the mapping of the input
\* value, with "GUEST" taken for a missing or empty input, and in LOCATION
\* the mapping of the input value; a value that is no key of the table is
\* kept; the cells of all other columns are unchanged.
ValueNormalizer == [][ValueMappingStep]_vars

ValueNormalizerWitness ==
  /\ pc = "phone" /\ run = 1
  /\ df.cols = <<"Home Facility", "BADGE">>
  /\ \E r \in Rows(df) :
       /\ df.data[r] = <<<<"A","l","e","x","a","n","d","r","i","a">>, NaN>>
       /\ Column(cleaned, "LOCATION")[r] = <<"A","L","X">>
       /\ Column(cleaned, "BADGE")[r] = GUEST
  /\ \E r \in Rows(df) :
       /\ df.data[r] = <<<<"R","e","s","t","o","n">>, <<"M","e","m","b","e","r">>>>
       /\ Column(cleaned, "LOCATION")[r] = <<"R","e","s","t","o","n">>
       /\ Column(cleaned, "BADGE")[r] = <<"M","E","M","B","E","R">>

\* the text MM-DD-YYYY
IsMonthDayYear(r) ==
  /\ Len(r) = 10
  /\ r[3] = "-" /\ r[6] = "-"
  /\ \A i \in {1, 2, 4, 5, 7, 8, 9, 10} : IsDigit(r[i])
  /\ int(SubSeq(r, 1, 2)) \in 1..12
  /\ int(SubSeq(r, 4, 5)) \in 1..31

\* C9: the four-digit-year patterns are tried in their order and the first
\* that parses decides: A/B/YYYY and A-B-YYYY with A a month and B a day of
\* that month read as month A, day B; the day/month/year reading is used
\* only when A > 12; a cell that a four-digit-year pattern parses is never
\* read by a two-digit-year pattern; and whenever a pattern parsed, the
\* result is the zero-padded text MM-DD-YYYY.
PatternPriority ==
  (pc = "returned" /\ date_str # NaN) =>
    LET s == strip(date_str)
        i4 == FirstParsing(s, date_formats)
        i2 == FirstTwoDigit(s, age, current_year)
        mdy == Pad2(gen.a) \o Dash \o Pad2(gen.b) \o Dash \o Pad4(gen.y)
        dmy == Pad2(gen.b) \o Dash \o Pad2(gen.a) \o Dash \o Pad4(gen.y)
        slashed == gen.kind = "abY" /\ gen.sep \in {"/", "-"}
    IN  /\ (slashed /\ Timestamp(gen.y, gen.a, gen.b) # NaT) => result = mdy
        /\ (slashed /\ result = dmy /\ gen.a # gen.b) => gen.a > 12
        /\ i4 # 0 => result = strftime(to_datetime(s, date_formats[i4]))
        /\ (gen.kind = "aby" /\ result # s) => i4 = 0
        /\ (i4 # 0 \/ i2 # 0) => IsMonthDayYear(result)
        /\ s = <<"0","3","/","0","4","/","1","9","9","0">> => result = <<"0","3","-","0","4","-","1","9","9","0">>

PatternPriorityWitness ==
  /\ pc = "returned"
  /\ strip(date_str) = <<"0","3","/","0","4","/","1","9","9","0">>
  /\ result = <<"0","3","-","0","4","-","1","9","9","0">>

YouthStep ==
  pc = "youth" =>
    /\ ~HasCol(cleaned, "Interest")
    /\ HasCol(cleaned, "Youth Programs Interest") =>
         /\ \A r \in Rows(cleaned) :
              LET v == Column(cleaned, "Youth Programs Interest")[r]
                  before == Column(cleaned, "INTEREST_YOUTH")[r]
              IN  Column(cleaned', "INTEREST_YOUTH")[r]
                    = IF before = YES \/ (v # NaN /\ lower(v) = <<"y","e","s">>)
                      THEN YES ELSE EmptyStr
         /\ \A c \in {"INTEREST_ADULT", "INTEREST_OUTDOOR", "INTEREST_FITNESS"} :
              Column(cleaned', c) = Column(cleaned, c)
         /\ ~HasCol(cleaned', "Youth Programs Interest")

\* C10: the 'Youth Programs Interest' step runs after the keyword scan and
\* only adds to INTEREST_YOUTH: afterwards the cell is "YES" if it was "YES"
\* after the scan or the row's value equals "yes" ignoring case, and ""
\* otherwise; no other INTEREST_* column changes and the source column is
\* dropped.
YouthOnlyAdds == [][YouthStep]_vars

YouthOnlyAddsWitness ==
  /\ pc = "map" /\ run = 1
  /\ df.cols = <<"Interest", "Youth Programs Interest">>
  /\ \E r \in Rows(df) :
       /\ df.data[r] = <<<<"y","o","u","t","h"," ","c","l","i","m","b","i","n","g"," ","p","r","o","g","r","a","m","s">>, <<"n","o">>>>
       /\ Column(cleaned, "INTEREST_YOUTH")[r] = YES
  /\ \E r \in Rows(df) :
       /\ df.data[r] = <<<<"Y","o","g","a">>, <<"Y","e","s">>>>
       /\ Column(cleaned, "INTEREST_YOUTH")[r] = YES

====
